---- MODULE Spec2Model ----
(***************************************************************************)
(* RelayList (country -> city -> relay index with findItemForLocation)     *)
(* and WelcomeViewModel.onClosePurchaseResultDialog.                       *)
(***************************************************************************)
EXTENDS Integers, Sequences, FiniteSets, TLC

VARIABLES
    \* RelayList and the callers of findItemForLocation
    model, countries, lastConstraint, lastResult, callers,
    \* WelcomeViewModel and the coroutines of its viewModelScope
    pollAccountExpiry, coroutines, closeCalls, clicks, collector, invoked,
    completed

relayVars == <<model, countries, lastConstraint, lastResult, callers>>
vmVars ==
    <<pollAccountExpiry, coroutines, closeCalls, clicks, collector, invoked,
      completed>>
vars == <<relayVars, vmVars>>

(* ------------------------------ bounds --------------------------------- *)
\* Largest number of nodes (countries + cities + relays) of an input model.
MaxNodes == 4
\* Largest number of nodes of an input model shared by concurrent callers.
ConcMaxNodes == 3
\* Largest number of onClosePurchaseResultDialog calls on one view model.
MaxCalls == 1
\* Largest number of onSitePaymentClick calls on one view model.
MaxClicks == 1

CountryCodes == {"se", "no"}
CityCodes == {"sto", "got"}
Hostnames == {"se1-wg-001", "se2-wg-002"}
CountryNames == {"Sweden", "Norway"}
CityNames == {"Stockholm", "Gothenburg"}

(* --------------------------- the input model --------------------------- *)
\* model.RelayListCity.relays: the sequences of at most n input relays.
RECURSIVE ModelRelaySeqs(_)
ModelRelaySeqs(n) ==
    IF n = 0 THEN {<<>>}
    ELSE {<<>>} \cup {<<[hostname |-> h]>> \o rest :
                        h \in Hostnames, rest \in ModelRelaySeqs(n - 1)}

\* The input cities made of exactly s nodes (the city and s - 1 relays).
ModelCitiesOfSize(s) ==
    {[name |-> nm, code |-> cd, relays |-> rs] :
        nm \in CityNames, cd \in CityCodes,
        rs \in {r \in ModelRelaySeqs(s - 1) : Len(r) = s - 1}}

\* model.RelayListCountry.cities: the sequences of input cities of at most n nodes.
RECURSIVE ModelCitySeqs(_)
ModelCitySeqs(n) ==
    {<<>>} \cup UNION {{<<c>> \o rest :
                          c \in ModelCitiesOfSize(s), rest \in ModelCitySeqs(n - s)} :
                       s \in 1..n}

\* The input countries made of exactly s nodes.
ModelCountriesOfSize(s) ==
    {[name |-> nm, code |-> cd, cities |-> cs] :
        nm \in CountryNames, cd \in CountryCodes,
        cs \in {c \in ModelCitySeqs(s - 1) :
                  Len(c) + (LET RECURSIVE Sum(_)
                                Sum(i) == IF i = 0 THEN 0
                                          ELSE Len(c[i].relays) + Sum(i - 1)
                            IN Sum(Len(c))) = s - 1}}

\* model.RelayList.countries: the sequences of input countries of at most n nodes.
RECURSIVE ModelCountrySeqs(_)
ModelCountrySeqs(n) ==
    {<<>>} \cup UNION {{<<c>> \o rest :
                          c \in ModelCountriesOfSize(s), rest \in ModelCountrySeqs(n - s)} :
                       s \in 1..n}

\* net.mullvad.mullvadvpn.model.RelayList values of at most n nodes.
Models(n) == {[countries |-> cs] : cs \in ModelCountrySeqs(n)}

(* ------------------------------ RelayList ------------------------------ *)
Relay(countryCode, cityCode, name) ==
    [countryCode |-> countryCode, cityCode |-> cityCode, name |-> name]

RelayCity(name, countryCode, code, expanded, relays) ==
    [name |-> name, countryCode |-> countryCode, code |-> code,
     expanded |-> expanded, relays |-> relays]

RelayCountry(name, code, expanded, cities) ==
    [name |-> name, code |-> code, expanded |-> expanded, cities |-> cities]

\* Mutant of the constructor: the relay is given its codes in the wrong order.
RelayListConstructor_SwappedCodes(m) ==
    [ci \in 1..Len(m.countries) |->
        LET country == m.countries[ci]
            cities == [yi \in 1..Len(country.cities) |->
                LET city == country.cities[yi]
                    relays == [ri \in 1..Len(city.relays) |->
                                 Relay(city.code, country.code, city.relays[ri].hostname)]
                IN RelayCity(city.name, country.code, city.code, FALSE, relays)]
        IN RelayCountry(country.name, country.code, FALSE, cities)]

\* Mutant of the constructor: a country whose code was already seen is dropped
\* (distinctBy { it.code }).
RECURSIVE DistinctByCode(_)
DistinctByCode(cs) ==
    IF cs = <<>> THEN <<>>
    ELSE LET init == DistinctByCode(SubSeq(cs, 1, Len(cs) - 1))
             last == cs[Len(cs)]
         IN IF \E i \in 1..Len(init) : init[i].code = last.code
            THEN init ELSE Append(init, last)

RelayListConstructor_Deduplicating(m) ==
    LET input == DistinctByCode(m.countries) IN
    [ci \in 1..Len(input) |->
        LET country == input[ci]
            cities == [yi \in 1..Len(country.cities) |->
                LET city == country.cities[yi]
                    relays == [ri \in 1..Len(city.relays) |->
                                 Relay(country.code, city.code, city.relays[ri].hostname)]
                IN RelayCity(city.name, country.code, city.code, FALSE, relays)]
        IN RelayCountry(country.name, country.code, FALSE, cities)]

\* Mutant of the constructor: the countries come out in reverse input order.
RelayListConstructor_Reversed(m) ==
    [ci \in 1..Len(m.countries) |->
        LET country == m.countries[Len(m.countries) + 1 - ci]
            cities == [yi \in 1..Len(country.cities) |->
                LET city == country.cities[yi]
                    relays == [ri \in 1..Len(city.relays) |->
                                 Relay(country.code, city.code, city.relays[ri].hostname)]
                IN RelayCity(city.name, country.code, city.code, FALSE, relays)]
        IN RelayCountry(country.name, country.code, FALSE, cities)]

\* RelayList.constructor: model.countries.map { ... }
RelayListConstructor(m) ==
    [ci \in 1..Len(m.countries) |->
        LET country == m.countries[ci]
            cities == [yi \in 1..Len(country.cities) |->
                LET city == country.cities[yi]
                    relays == [ri \in 1..Len(city.relays) |->
                                 Relay(country.code, city.code, city.relays[ri].hostname)]
                IN RelayCity(city.name, country.code, city.code, FALSE, relays)]
        IN RelayCountry(country.name, country.code, FALSE, cities)]

(* ------------------------- findItemForLocation ------------------------- *)
\* Constraint<LocationConstraint> values.
ConstraintAny == [type |-> "Any"]
ConstraintOnly(location) == [type |-> "Only", value |-> location]
Country(countryCode) == [type |-> "Country", countryCode |-> countryCode]
City(countryCode, cityCode) ==
    [type |-> "City", countryCode |-> countryCode, cityCode |-> cityCode]
Hostname(countryCode, cityCode, hostname) ==
    [type |-> "Hostname", countryCode |-> countryCode, cityCode |-> cityCode,
     hostname |-> hostname]

Locations ==
    {Country(c) : c \in CountryCodes}
    \cup {City(c, y) : c \in CountryCodes, y \in CityCodes}
    \cup {Hostname(c, y, h) : c \in CountryCodes, y \in CityCodes, h \in Hostnames}

Constraints == {ConstraintAny} \cup {ConstraintOnly(l) : l \in Locations}

\* RelayItem?: null, or a reference to a node of the list. A reference is the
\* node's position (path) in the list together with the node it designates.
Null == [kind |-> "null"]
Ref(kind, path, item) == [kind |-> kind, path |-> path, item |-> item]

\* List.find { it.<key> == key }: the index of the first element from position
\* i on whose key equals key, scanning left to right; 0 when there is none.
RECURSIVE FindFrom(_, _, _)
FindFrom(keys, key, i) ==
    IF i > Len(keys) THEN 0
    ELSE IF keys[i] = key THEN i
    ELSE FindFrom(keys, key, i + 1)

Find(keys, key) == FindFrom(keys, key, 1)

\* findLast instead of find: the index of the last element whose key is key.
RECURSIVE FindLastFrom(_, _, _)
FindLastFrom(keys, key, i) ==
    IF i = 0 THEN 0
    ELSE IF keys[i] = key THEN i
    ELSE FindLastFrom(keys, key, i - 1)

\* Mutant of the country scan: the last country with the code wins.
FindCountry_Last(cs, countryCode) ==
    LET keys == [i \in 1..Len(cs) |-> cs[i].code]
    IN FindLastFrom(keys, countryCode, Len(keys))

\* countries.find { country -> country.code == countryCode }
FindCountry(cs, countryCode) ==
    Find([i \in 1..Len(cs) |-> cs[i].code], countryCode)

\* Mutant of the city scan: the last city with the code wins.
FindCity_Last(cs, ci, cityCode) ==
    IF ci = 0 THEN 0
    ELSE LET keys == [i \in 1..Len(cs[ci].cities) |-> cs[ci].cities[i].code]
         IN FindLastFrom(keys, cityCode, Len(keys))

\* country?.cities?.find { city -> city.code == cityCode }, country at index ci
FindCity(cs, ci, cityCode) ==
    IF ci = 0 THEN 0
    ELSE Find([i \in 1..Len(cs[ci].cities) |-> cs[ci].cities[i].code], cityCode)

\* Mutant of the relay scan: the last relay with the name wins.
FindRelay_Last(cs, ci, yi, hostname) ==
    IF ci = 0 \/ yi = 0 THEN 0
    ELSE LET keys == [i \in 1..Len(cs[ci].cities[yi].relays) |->
                        cs[ci].cities[yi].relays[i].name]
         IN FindLastFrom(keys, hostname, Len(keys))

\* city?.relays?.find { relay -> relay.name == hostname }, city at <<ci, yi>>
FindRelay(cs, ci, yi, hostname) ==
    IF ci = 0 \/ yi = 0 THEN 0
    ELSE Find([i \in 1..Len(cs[ci].cities[yi].relays) |->
                 cs[ci].cities[yi].relays[i].name], hostname)

\* Mutant of the lookup: Constraint.Any falls back to the first country.
findItemForLocation_AnyIsFirst(cs, constraint) ==
    IF constraint.type = "Any"
    THEN IF cs = <<>> THEN Null ELSE Ref("country", <<1>>, cs[1])
    ELSE LET location == constraint.value IN
        CASE location.type = "Country" ->
                LET ci == FindCountry(cs, location.countryCode)
                IN IF ci = 0 THEN Null ELSE Ref("country", <<ci>>, cs[ci])
          [] location.type = "City" ->
                LET ci == FindCountry(cs, location.countryCode)
                    yi == FindCity(cs, ci, location.cityCode)
                IN IF yi = 0 THEN Null
                   ELSE Ref("city", <<ci, yi>>, cs[ci].cities[yi])
          [] location.type = "Hostname" ->
                LET ci == FindCountry(cs, location.countryCode)
                    yi == FindCity(cs, ci, location.cityCode)
                    ri == FindRelay(cs, ci, yi, location.hostname)
                IN IF ri = 0 THEN Null
                   ELSE Ref("relay", <<ci, yi, ri>>, cs[ci].cities[yi].relays[ri])

\* Mutant of the lookup: a Hostname whose relay is missing yields the city
\* that was found instead of null.
findItemForLocation_CityForMissingRelay(cs, constraint) ==
    IF constraint.type = "Any" THEN Null
    ELSE LET location == constraint.value IN
        CASE location.type = "Country" ->
                LET ci == FindCountry(cs, location.countryCode)
                IN IF ci = 0 THEN Null ELSE Ref("country", <<ci>>, cs[ci])
          [] location.type = "City" ->
                LET ci == FindCountry(cs, location.countryCode)
                    yi == FindCity(cs, ci, location.cityCode)
                IN IF yi = 0 THEN Null
                   ELSE Ref("city", <<ci, yi>>, cs[ci].cities[yi])
          [] location.type = "Hostname" ->
                LET ci == FindCountry(cs, location.countryCode)
                    yi == FindCity(cs, ci, location.cityCode)
                    ri == FindRelay(cs, ci, yi, location.hostname)
                IN IF yi = 0 THEN Null
                   ELSE IF ri = 0 THEN Ref("city", <<ci, yi>>, cs[ci].cities[yi])
                   ELSE Ref("relay", <<ci, yi, ri>>, cs[ci].cities[yi].relays[ri])

findItemForLocation(cs, constraint) ==
    IF constraint.type = "Any" THEN Null
    ELSE LET location == constraint.value IN
        CASE location.type = "Country" ->
                LET ci == FindCountry(cs, location.countryCode)
                IN IF ci = 0 THEN Null ELSE Ref("country", <<ci>>, cs[ci])
          [] location.type = "City" ->
                LET ci == FindCountry(cs, location.countryCode)
                    yi == FindCity(cs, ci, location.cityCode)
                IN IF yi = 0 THEN Null
                   ELSE Ref("city", <<ci, yi>>, cs[ci].cities[yi])
          [] location.type = "Hostname" ->
                LET ci == FindCountry(cs, location.countryCode)
                    yi == FindCity(cs, ci, location.cityCode)
                    ri == FindRelay(cs, ci, yi, location.hostname)
                IN IF ri = 0 THEN Null
                   ELSE Ref("relay", <<ci, yi, ri>>, cs[ci].cities[yi].relays[ri])

(* ------------------------------- actions ------------------------------- *)
NoConstraint == [type |-> "None"]

\* No WelcomeViewModel exists.
NoViewModel ==
    /\ pollAccountExpiry = FALSE
    /\ coroutines = {}
    /\ closeCalls = <<>>
    /\ clicks = 0
    /\ collector = "none"
    /\ invoked = <<>>
    /\ completed = <<>>

Init ==
    /\ model \in Models(MaxNodes)
    /\ countries = RelayListConstructor(model)
    /\ lastConstraint = NoConstraint
    /\ lastResult = Null
    /\ callers = <<>>
    /\ NoViewModel

\* One complete call of findItemForLocation(constraint) on the constructed list.
Lookup(constraint) ==
    /\ lastConstraint' = constraint
    /\ lastResult' = findItemForLocation(countries, constraint)
    /\ UNCHANGED <<model, countries, callers, vmVars>>

Next == \E constraint \in Constraints : Lookup(constraint)

Spec == Init /\ [][Next]_vars

(* ------------------- concurrent callers of the lookup ------------------ *)
\* Several callers run findItemForLocation on the one constructed list, each
\* at its own position in the function body; a step is one scan of a list.
Callers == {"caller1", "caller2"}

\* A caller's frame: its position, its argument, its locals `country` and
\* `city` (positions of the nodes found, 0 for null) and the value returned.
IdleFrame ==
    [pc |-> "idle", constraint |-> NoConstraint, country |-> 0, city |-> 0,
     result |-> Null]

\* The input models of the concurrent specification: at most ConcMaxNodes
\* nodes, display names fixed.
ConcModels ==
    {m \in Models(ConcMaxNodes) :
        \A ci \in 1..Len(m.countries) :
            /\ m.countries[ci].name = "Sweden"
            /\ \A yi \in 1..Len(m.countries[ci].cities) :
                  m.countries[ci].cities[yi].name = "Stockholm"}

InitConc ==
    /\ model \in ConcModels
    /\ countries = RelayListConstructor(model)
    /\ lastConstraint = NoConstraint
    /\ lastResult = Null
    /\ callers = [c \in Callers |-> IdleFrame]
    /\ NoViewModel

\* A caller enters findItemForLocation(constraint).
Call(c, constraint) ==
    /\ callers[c].pc = "idle"
    /\ callers' = [callers EXCEPT ![c] = [IdleFrame EXCEPT !.pc = "when",
                                                          !.constraint = constraint]]
    /\ UNCHANGED <<model, countries, lastConstraint, lastResult, vmVars>>

\* Mutant of the first scan: the country found is marked expanded in place.
WhenStep_ExpandsCountry(c) ==
    /\ callers[c].pc = "when"
    /\ LET constraint == callers[c].constraint IN
       IF constraint.type = "Any"
       THEN /\ callers' = [callers EXCEPT ![c].pc = "done", ![c].result = Null]
            /\ UNCHANGED countries
       ELSE LET ci == FindCountry(countries, constraint.value.countryCode)
                cs == IF ci = 0 THEN countries
                      ELSE [countries EXCEPT ![ci].expanded = TRUE]
            IN /\ countries' = cs
               /\ IF constraint.value.type = "Country"
                  THEN callers' = [callers EXCEPT
                          ![c].pc = "done",
                          ![c].result = IF ci = 0 THEN Null
                                        ELSE Ref("country", <<ci>>, cs[ci])]
                  ELSE callers' = [callers EXCEPT ![c].pc = "city", ![c].country = ci]
    /\ UNCHANGED <<model, lastConstraint, lastResult, vmVars>>

\* when (constraint) / when (location): Any returns null; otherwise the
\* countries are scanned for location.countryCode, which ends a Country
\* lookup and sets the local `country` of a City or Hostname lookup.
WhenStep(c) ==
    /\ callers[c].pc = "when"
    /\ LET constraint == callers[c].constraint IN
       IF constraint.type = "Any"
       THEN callers' = [callers EXCEPT ![c].pc = "done", ![c].result = Null]
       ELSE LET ci == FindCountry(countries, constraint.value.countryCode) IN
            IF constraint.value.type = "Country"
            THEN callers' = [callers EXCEPT
                    ![c].pc = "done",
                    ![c].result = IF ci = 0 THEN Null
                                  ELSE Ref("country", <<ci>>, countries[ci])]
            ELSE callers' = [callers EXCEPT ![c].pc = "city", ![c].country = ci]
    /\ UNCHANGED <<model, countries, lastConstraint, lastResult, vmVars>>

\* country?.cities?.find { ... }: ends a City lookup, sets the local `city`
\* of a Hostname lookup.
CityStep(c) ==
    /\ callers[c].pc = "city"
    /\ LET location == callers[c].constraint.value
           ci == callers[c].country
           yi == FindCity(countries, ci, location.cityCode)
       IN IF location.type = "City"
          THEN callers' = [callers EXCEPT
                  ![c].pc = "done",
                  ![c].result = IF yi = 0 THEN Null
                                ELSE Ref("city", <<ci, yi>>, countries[ci].cities[yi])]
          ELSE callers' = [callers EXCEPT ![c].pc = "relay", ![c].city = yi]
    /\ UNCHANGED <<model, countries, lastConstraint, lastResult, vmVars>>

\* return city?.relays?.find { ... }
RelayStep(c) ==
    /\ callers[c].pc = "relay"
    /\ LET location == callers[c].constraint.value
           ci == callers[c].country
           yi == callers[c].city
           ri == FindRelay(countries, ci, yi, location.hostname)
       IN callers' = [callers EXCEPT
             ![c].pc = "done",
             ![c].result = IF ri = 0 THEN Null
                           ELSE Ref("relay", <<ci, yi, ri>>,
                                    countries[ci].cities[yi].relays[ri])]
    /\ UNCHANGED <<model, countries, lastConstraint, lastResult, vmVars>>

\* The caller takes the returned value and leaves the function.
Return(c) ==
    /\ callers[c].pc = "done"
    /\ callers' = [callers EXCEPT ![c] = IdleFrame]
    /\ UNCHANGED <<model, countries, lastConstraint, lastResult, vmVars>>

NextConc ==
    \E c \in Callers :
        \/ \E constraint \in Constraints : Call(c, constraint)
        \/ WhenStep(c)
        \/ CityStep(c)
        \/ RelayStep(c)
        \/ Return(c)

SpecConc == InitConc /\ [][NextConc]_vars

(* --------------------------- WelcomeViewModel -------------------------- *)
\* Who started a piece of work: the init block, the k-th
\* onClosePurchaseResultDialog call, the j-th onSitePaymentClick call, or the
\* collection of uiSideEffect (hasAddedTimeEffect).
InitBlock == [kind |-> "init", n |-> 0]
CloseCall(k) == [kind |-> "close", n |-> k]
SiteClick(j) == [kind |-> "click", n |-> j]
SideEffectFlow == [kind |-> "flow", n |-> 0]

Origins ==
    {InitBlock, SideEffectFlow}
    \cup {CloseCall(k) : k \in 1..MaxCalls}
    \cup {SiteClick(j) : j \in 1..MaxClicks}

\* A coroutine launched in viewModelScope: who launched it, the block it runs
\* and its position: "launched" before it first runs, "in<Call>" while
\* suspended in a suspending call, "done" after its block ended.
Coroutine(origin, body) == [origin |-> origin, body |-> body, pc |-> "launched"]

Bodies == {"poll", "verifyPurchases", "fetchPaymentAvailability", "updateDevice",
           "updateAccountExpiry", "resetPurchaseResult", "sitePayment"}

\* accountRepository.getWebsiteAuthToken(): a token or null.
WebsiteAuthTokens == {"null", "token"}

\* The hours left until the expiry date of an emitted accountData.
MIN_HOURS_PAST_ACCOUNT_EXPIRY == 20
ExpiryHours ==
    {MIN_HOURS_PAST_ACCOUNT_EXPIRY - 1, MIN_HOURS_PAST_ACCOUNT_EXPIRY,
     MIN_HOURS_PAST_ACCOUNT_EXPIRY + 1}

\* The collaborators' methods called: invoked[o] holds those that work of
\* origin o has called, completed[o] those that have returned.
Invoke(origin, method) ==
    invoked' = [invoked EXCEPT ![origin] = @ \cup {method}]

Complete(origin, method) ==
    completed' = [completed EXCEPT ![origin] = @ \cup {method}]

\* The coroutine t moves to position pc.
Goto(t, pc) ==
    coroutines' = (coroutines \ {t}) \cup {[t EXCEPT !.pc = pc]}

\* init { ... }: the poll loop, verifyPurchases(), fetchPaymentAvailability()
\* and the updateDevice coroutine are launched; uiSideEffect is a cold flow
\* nobody collects yet.
InitVM ==
    /\ model = [countries |-> <<>>]
    /\ countries = <<>>
    /\ lastConstraint = NoConstraint
    /\ lastResult = Null
    /\ callers = <<>>
    /\ pollAccountExpiry \in BOOLEAN
    /\ coroutines = {Coroutine(InitBlock, "poll"),
                     Coroutine(InitBlock, "verifyPurchases"),
                     Coroutine(InitBlock, "fetchPaymentAvailability"),
                     Coroutine(InitBlock, "updateDevice")}
    /\ closeCalls = <<>>
    /\ clicks = 0
    /\ collector = "none"
    /\ invoked = [o \in Origins |-> {}]
    /\ completed = [o \in Origins |-> {}]

\* Mutant of the handler: the test of success is inverted.
OnClosePurchaseResultDialog_Inverted(success) ==
    /\ Len(closeCalls) < MaxCalls
    /\ LET k == CloseCall(Len(closeCalls) + 1) IN
       /\ closeCalls' = Append(closeCalls, success)
       /\ coroutines' = coroutines
             \cup (IF ~success
                   THEN {Coroutine(k, "updateAccountExpiry")}
                   ELSE {Coroutine(k, "fetchPaymentAvailability"),
                         Coroutine(k, "verifyPurchases")})
             \cup {Coroutine(k, "resetPurchaseResult")}
    /\ UNCHANGED <<relayVars, pollAccountExpiry, clicks, collector, invoked, completed>>

\* onClosePurchaseResultDialog(success): launches the coroutines of its branch
\* and the resetPurchaseResult coroutine.
OnClosePurchaseResultDialog(success) ==
    /\ Len(closeCalls) < MaxCalls
    /\ LET k == CloseCall(Len(closeCalls) + 1) IN
       /\ closeCalls' = Append(closeCalls, success)
       /\ coroutines' = coroutines
             \cup (IF success
                   THEN {Coroutine(k, "updateAccountExpiry")}
                   ELSE {Coroutine(k, "fetchPaymentAvailability"),
                         Coroutine(k, "verifyPurchases")})
             \cup {Coroutine(k, "resetPurchaseResult")}
    /\ UNCHANGED <<relayVars, pollAccountExpiry, clicks, collector, invoked, completed>>

\* onSitePaymentClick(): launches the coroutine that fetches the website auth
\* token.
OnSitePaymentClick ==
    /\ clicks < MaxClicks
    /\ clicks' = clicks + 1
    /\ coroutines' = coroutines \cup {Coroutine(SiteClick(clicks + 1), "sitePayment")}
    /\ UNCHANGED <<relayVars, pollAccountExpiry, closeCalls, collector, invoked,
                   completed>>

\* launch { accountRepository.getWebsiteAuthToken()?.let { token ->
\*     _uiSideEffect.send(UiSideEffect.OpenAccountView(token)) } }
\* The channel is a rendezvous channel: send returns once the collector of
\* uiSideEffect has received the element.
SitePaymentStep(t) ==
    /\ t.body = "sitePayment"
    /\ \/ /\ t.pc = "launched"
          /\ Goto(t, "inGetWebsiteAuthToken")
          /\ Invoke(t.origin, "getWebsiteAuthToken")
          /\ UNCHANGED completed
       \/ /\ t.pc = "inGetWebsiteAuthToken"
          /\ Complete(t.origin, "getWebsiteAuthToken")
          /\ \E token \in WebsiteAuthTokens :
                IF token = "null"
                THEN Goto(t, "done") /\ UNCHANGED invoked
                ELSE Goto(t, "inSend") /\ Invoke(t.origin, "send(OpenAccountView)")
       \/ /\ t.pc = "inSend"
          /\ collector # "none"
          /\ Goto(t, "done")
          /\ Complete(t.origin, "send(OpenAccountView)")
          /\ UNCHANGED invoked
    /\ UNCHANGED <<relayVars, pollAccountExpiry, closeCalls, clicks, collector>>

\* The user interface starts to collect uiSideEffect, the merge of the
\* channel and hasAddedTimeEffect().
CollectUiSideEffect ==
    /\ collector = "none"
    /\ collector' = "collecting"
    /\ UNCHANGED <<relayVars, pollAccountExpiry, coroutines, closeCalls, clicks,
                   invoked, completed>>

\* hasAddedTimeEffect(): accountRepository.accountData emits a value with
\* hours left until its expiry date; filterNotNull, then
\* filter { it.expiryDate.minusHours(MIN_HOURS_PAST_ACCOUNT_EXPIRY).isAfterNow }
\* and onEach { paymentUseCase.resetPurchaseResult() }.
AccountDataEmits(hours) ==
    /\ collector = "collecting"
    /\ IF hours - MIN_HOURS_PAST_ACCOUNT_EXPIRY > 0
       THEN /\ collector' = "inResetPurchaseResult"
            /\ Invoke(SideEffectFlow, "resetPurchaseResult")
       ELSE UNCHANGED <<collector, invoked>>
    /\ UNCHANGED <<relayVars, pollAccountExpiry, coroutines, closeCalls, clicks,
                   completed>>

\* resetPurchaseResult() of onEach returns; map { UiSideEffect.OpenConnectScreen }
\* hands OpenConnectScreen to the collector.
OpenConnectScreen ==
    /\ collector = "inResetPurchaseResult"
    /\ collector' = "collecting"
    /\ Complete(SideEffectFlow, "resetPurchaseResult")
    /\ Invoke(SideEffectFlow, "emit(OpenConnectScreen)")
    /\ UNCHANGED <<relayVars, pollAccountExpiry, coroutines, closeCalls, clicks>>

\* while (pollAccountExpiry) { updateAccountExpiry(); delay(...) }
PollStep(t) ==
    /\ t.body = "poll"
    /\ \/ /\ t.pc \in {"launched", "inDelay"}
          /\ IF pollAccountExpiry
             THEN Goto(t, "inGetAccountData") /\ Invoke(t.origin, "getAccountData")
             ELSE Goto(t, "done") /\ UNCHANGED invoked
          /\ UNCHANGED completed
       \/ /\ t.pc = "inGetAccountData"
          /\ Goto(t, "inDelay")
          /\ Complete(t.origin, "getAccountData")
          /\ UNCHANGED invoked
    /\ UNCHANGED <<relayVars, pollAccountExpiry, closeCalls, clicks, collector>>

\* Mutant of verifyPurchases: the expiry is refreshed before the purchases
\* are verified.
VerifyPurchasesStep_ExpiryFirst(t) ==
    /\ t.body = "verifyPurchases"
    /\ \/ /\ t.pc = "launched"
          /\ Goto(t, "inGetAccountData")
          /\ Invoke(t.origin, "getAccountData")
          /\ UNCHANGED completed
       \/ /\ t.pc = "inGetAccountData"
          /\ Goto(t, "inVerifyPurchases")
          /\ Complete(t.origin, "getAccountData")
          /\ Invoke(t.origin, "verifyPurchases")
       \/ /\ t.pc = "inVerifyPurchases"
          /\ Goto(t, "done")
          /\ Complete(t.origin, "verifyPurchases")
          /\ UNCHANGED invoked
    /\ UNCHANGED <<relayVars, pollAccountExpiry, closeCalls, clicks, collector>>

\* launch { paymentUseCase.verifyPurchases(); updateAccountExpiry() }
VerifyPurchasesStep(t) ==
    /\ t.body = "verifyPurchases"
    /\ \/ /\ t.pc = "launched"
          /\ Goto(t, "inVerifyPurchases")
          /\ Invoke(t.origin, "verifyPurchases")
          /\ UNCHANGED completed
       \/ /\ t.pc = "inVerifyPurchases"
          /\ Goto(t, "inGetAccountData")
          /\ Complete(t.origin, "verifyPurchases")
          /\ Invoke(t.origin, "getAccountData")
       \/ /\ t.pc = "inGetAccountData"
          /\ Goto(t, "done")
          /\ Complete(t.origin, "getAccountData")
          /\ UNCHANGED invoked
    /\ UNCHANGED <<relayVars, pollAccountExpiry, closeCalls, clicks, collector>>

\* A coroutine whose block is one suspending call of method.
SingleCallStep(t, body, method) ==
    /\ t.body = body
    /\ \/ /\ t.pc = "launched"
          /\ Goto(t, "inCall")
          /\ Invoke(t.origin, method)
          /\ UNCHANGED completed
       \/ /\ t.pc = "inCall"
          /\ Goto(t, "done")
          /\ Complete(t.origin, method)
          /\ UNCHANGED invoked
    /\ UNCHANGED <<relayVars, pollAccountExpiry, closeCalls, clicks, collector>>

\* launch { paymentUseCase.queryPaymentAvailability() }
FetchPaymentAvailabilityStep(t) ==
    SingleCallStep(t, "fetchPaymentAvailability", "queryPaymentAvailability")

\* launch { deviceRepository.updateDevice() }
UpdateDeviceStep(t) == SingleCallStep(t, "updateDevice", "updateDevice")

\* launch { updateAccountExpiry() }
UpdateAccountExpiryStep(t) ==
    SingleCallStep(t, "updateAccountExpiry", "getAccountData")

\* launch { paymentUseCase.resetPurchaseResult() }
ResetPurchaseResultStep(t) ==
    SingleCallStep(t, "resetPurchaseResult", "resetPurchaseResult")

\* The dispatcher runs the coroutine t up to its next suspension point.
Run(t) ==
    \/ PollStep(t)
    \/ VerifyPurchasesStep(t)
    \/ FetchPaymentAvailabilityStep(t)
    \/ UpdateDeviceStep(t)
    \/ UpdateAccountExpiryStep(t)
    \/ ResetPurchaseResultStep(t)
    \/ SitePaymentStep(t)

NextVM ==
    \/ \E success \in BOOLEAN : OnClosePurchaseResultDialog(success)
    \/ OnSitePaymentClick
    \/ CollectUiSideEffect
    \/ \E hours \in ExpiryHours : AccountDataEmits(hours)
    \/ OpenConnectScreen
    \/ \E t \in coroutines : PollStep(t)
    \/ \E t \in coroutines : VerifyPurchasesStep(t)
    \/ \E t \in coroutines : FetchPaymentAvailabilityStep(t)
    \/ \E t \in coroutines : UpdateDeviceStep(t)
    \/ \E t \in coroutines : UpdateAccountExpiryStep(t)
    \/ \E t \in coroutines : ResetPurchaseResultStep(t)
    \/ \E t \in coroutines : SitePaymentStep(t)

\* viewModelScope keeps running the coroutines that the
\* onClosePurchaseResultDialog calls launched, and every suspending call of a
\* collaborator returns: as long as one of these coroutines can run, one of
\* them does.
FairVM == WF_vars(\E t \in coroutines : t.origin.kind = "close" /\ Run(t))

SpecVM == InitVM /\ [][NextVM]_vars /\ FairVM

(* ---------------------- vocabulary of the properties ------------------- *)
\* The least element of a nonempty set of positions.
Least(S) == CHOOSE i \in S : \A j \in S : i <= j

\* Positions of the top-level countries of cs whose code is code.
CountriesWithCode(cs, code) == {i \in 1..Len(cs) : cs[i].code = code}

\* Positions of the cities of country ci whose code is code.
CitiesWithCode(cs, ci, code) ==
    {j \in 1..Len(cs[ci].cities) : cs[ci].cities[j].code = code}

\* Positions of the relays of city <<ci, yi>> whose name is hostname.
RelaysWithName(cs, ci, yi, hostname) ==
    {k \in 1..Len(cs[ci].cities[yi].relays) :
        cs[ci].cities[yi].relays[k].name = hostname}

\* The paths <<ci, yi>> of all cities and <<ci, yi, ri>> of all relays of cs.
CityPaths(cs) ==
    UNION {{<<ci, yi>> : yi \in 1..Len(cs[ci].cities)} : ci \in 1..Len(cs)}

RelayPaths(cs) ==
    UNION {{<<p[1], p[2], ri>> : ri \in 1..Len(cs[p[1]].cities[p[2]].relays)} :
             p \in CityPaths(cs)}

CityAt(cs, p) == cs[p[1]].cities[p[2]]
RelayAt(cs, p) == cs[p[1]].cities[p[2]].relays[p[3]]

\* The relay at path p is the one every scan meets first: its country is the
\* first with that country code, its city the first of that country with that
\* city code, and it is the first relay of that city with its name.
FirstOnItsPath(cs, p) ==
    /\ p[1] = Least(CountriesWithCode(cs, cs[p[1]].code))
    /\ p[2] = Least(CitiesWithCode(cs, p[1], CityAt(cs, p).code))
    /\ p[3] = Least(RelaysWithName(cs, p[1], p[2], RelayAt(cs, p).name))

\* The Hostname constraint spelling out the identity the relay at p carries.
HostnameOf(cs, p) ==
    ConstraintOnly(Hostname(RelayAt(cs, p).countryCode, RelayAt(cs, p).cityCode,
                            RelayAt(cs, p).name))

HasDuplicates(keys) == \E i, j \in 1..Len(keys) : i < j /\ keys[i] = keys[j]

CountryCodesOf(cs) == [i \in 1..Len(cs) |-> cs[i].code]
CityCodesOf(country) == [j \in 1..Len(country.cities) |-> country.cities[j].code]

(* -------------------------------- claims ------------------------------- *)
\* C1 (as stated): whenever the last lookup asked for the exact
\* (countryCode, cityCode, hostname) of a relay stored anywhere in the list,
\* duplicates included, it returned a relay equal to that relay.
C1_RoundTripAnyInput ==
    \A p \in RelayPaths(countries) :
        lastConstraint = HostnameOf(countries, p) =>
            /\ lastResult.kind = "relay"
            /\ lastResult.item = RelayAt(countries, p)

\* C1 (amended): whenever the last lookup asked for the exact identity of a
\* stored relay that is first on its path (first country with its country
\* code, first city of it with its city code, first relay of it with its
\* name), it returned that very node: same position, same value. A stored
\* relay that is not first on its path is never the node returned.
C1_RoundTripFirstOnPath ==
    \A p \in RelayPaths(countries) :
        lastConstraint = HostnameOf(countries, p) =>
            IF FirstOnItsPath(countries, p)
            THEN lastResult = Ref("relay", p, RelayAt(countries, p))
            ELSE ~(lastResult.kind = "relay" /\ lastResult.path = p)

\* C1 witness: in a list holding two relays of the same name in one city, the
\* lookup of that name has returned the first of them.
C1_Witness ==
    /\ \E p \in RelayPaths(countries) :
          /\ p[3] = 2
          /\ RelayAt(countries, p).name = RelayAt(countries, <<p[1], p[2], 1>>).name
          /\ lastConstraint = HostnameOf(countries, p)
    /\ lastResult.kind = "relay"
    /\ lastResult.path[3] = 1

\* C2: every RelayCity carries the code of the RelayCountry that owns it and
\* every Relay carries the codes of its owning RelayCountry and RelayCity, in
\* the constructed list and after any sequence of findItemForLocation calls.
C2_CodesMatchOwners ==
    /\ \A p \in CityPaths(countries) :
          CityAt(countries, p).countryCode = countries[p[1]].code
    /\ \A p \in RelayPaths(countries) :
          /\ RelayAt(countries, p).countryCode = countries[p[1]].code
          /\ RelayAt(countries, p).cityCode = CityAt(countries, p).code

\* C2 witness: a lookup has run on a list with a relay whose country code and
\* city code are those of its owners.
C2_Witness ==
    /\ lastConstraint # NoConstraint
    /\ \E p \in RelayPaths(countries) :
          /\ RelayAt(countries, p).countryCode = "no"
          /\ RelayAt(countries, p).cityCode = "got"
          /\ countries[p[1]].code = "no"
          /\ CityAt(countries, p).code = "got"

\* C3 (as stated): in every constructed list no two top-level countries share
\* a code and no two cities of one country share a code.
C3_CodesUnique ==
    /\ ~HasDuplicates(CountryCodesOf(countries))
    /\ \A ci \in 1..Len(countries) : ~HasDuplicates(CityCodesOf(countries[ci]))

\* C3 (amended): the constructor neither introduces nor removes duplicate
\* codes: the constructed top-level list has two countries sharing a code
\* exactly when the input has, and the country at each position has two
\* cities sharing a code exactly when the input country at that position has.
C3_DuplicatesAsInInput ==
    /\ Len(countries) = Len(model.countries)
    /\ HasDuplicates(CountryCodesOf(countries))
          <=> HasDuplicates(CountryCodesOf(model.countries))
    /\ \A ci \in 1..Len(countries) :
          HasDuplicates(CityCodesOf(countries[ci]))
             <=> HasDuplicates(CityCodesOf(model.countries[ci]))

\* C3 witness: a constructed list with two countries of one code, one of them
\* with two cities of one code, built from an input with the same duplicates.
C3_Witness ==
    /\ HasDuplicates(CountryCodesOf(model.countries))
    /\ HasDuplicates(CountryCodesOf(countries))
    /\ \E ci \in 1..Len(countries) :
          /\ HasDuplicates(CityCodesOf(model.countries[ci]))
          /\ HasDuplicates(CityCodesOf(countries[ci]))

\* C4: findItemForLocation(Constraint.Any) returns null whatever the list holds.
C4_AnyIsNull == lastConstraint = ConstraintAny => lastResult = Null

\* C4 witness: Constraint.Any was looked up in a list that has a country, a
\* city and a relay, and the result is null.
C4_Witness ==
    /\ lastConstraint = ConstraintAny
    /\ RelayPaths(countries) # {}
    /\ lastResult = Null

\* C5: findItemForLocation(Only(Country(code))) returns the first RelayCountry
\* in stored order whose code is code, null exactly when no top-level country
\* has that code, and never a city or a relay.
C5_CountryLookup ==
    (lastConstraint.type = "Only" /\ lastConstraint.value.type = "Country") =>
        LET hits == CountriesWithCode(countries, lastConstraint.value.countryCode)
        IN /\ lastResult.kind \in {"null", "country"}
           /\ lastResult = Null <=> hits = {}
           /\ hits # {} =>
                 lastResult = Ref("country", <<Least(hits)>>, countries[Least(hits)])

\* C5 witness: a country code carried by two different countries was looked
\* up and the first of them came back.
C5_Witness ==
    /\ Len(countries) >= 2
    /\ countries[1].code = countries[2].code
    /\ countries[1] # countries[2]
    /\ lastConstraint = ConstraintOnly(Country(countries[2].code))
    /\ lastResult = Ref("country", <<1>>, countries[1])

\* C6: findItemForLocation(Only(City(countryCode, cityCode))) returns null
\* when no country has countryCode; otherwise it looks only into the first
\* country with that code and returns its first city with cityCode, or null
\* when that country has none, whatever the other countries hold.
C6_CityLookup ==
    (lastConstraint.type = "Only" /\ lastConstraint.value.type = "City") =>
        LET cHits == CountriesWithCode(countries, lastConstraint.value.countryCode)
        IN IF cHits = {} THEN lastResult = Null
           ELSE LET ci == Least(cHits)
                    yHits == CitiesWithCode(countries, ci, lastConstraint.value.cityCode)
                IN IF yHits = {} THEN lastResult = Null
                   ELSE lastResult =
                          Ref("city", <<ci, Least(yHits)>>, countries[ci].cities[Least(yHits)])

\* C6 witness: the first country with the code has no city of the asked code,
\* a later country of the same code has one, and the lookup returned null.
C6_Witness ==
    /\ Len(countries) >= 2
    /\ countries[1].code = countries[2].code
    /\ lastConstraint.type = "Only"
    /\ lastConstraint.value.type = "City"
    /\ lastConstraint.value.countryCode = countries[1].code
    /\ CitiesWithCode(countries, 1, lastConstraint.value.cityCode) = {}
    /\ CitiesWithCode(countries, 2, lastConstraint.value.cityCode) # {}
    /\ lastResult = Null

\* C6 second witness: a city code carried by two cities of the first matching
\* country was looked up and the first of them came back.
C6_WitnessFound ==
    /\ lastResult.kind = "city"
    /\ lastResult.path[2] = 1
    /\ Cardinality(CitiesWithCode(countries, lastResult.path[1],
                                  lastConstraint.value.cityCode)) = 2

\* C7: findItemForLocation(Only(Hostname(countryCode, cityCode, hostname)))
\* returns null when the country lookup misses or the city lookup within the
\* first matching country misses; otherwise the first relay of that city named
\* hostname, or null when the city has none. Every outcome is a value (null or
\* a relay), never an error.
C7_HostnameLookup ==
    (lastConstraint.type = "Only" /\ lastConstraint.value.type = "Hostname") =>
        LET cHits == CountriesWithCode(countries, lastConstraint.value.countryCode)
        IN /\ lastResult.kind \in {"null", "relay"}
           /\ IF cHits = {} THEN lastResult = Null
              ELSE LET ci == Least(cHits)
                       yHits == CitiesWithCode(countries, ci, lastConstraint.value.cityCode)
                   IN IF yHits = {} THEN lastResult = Null
                      ELSE LET yi == Least(yHits)
                               rHits == RelaysWithName(countries, ci, yi,
                                                       lastConstraint.value.hostname)
                           IN IF rHits = {} THEN lastResult = Null
                              ELSE lastResult =
                                     Ref("relay", <<ci, yi, Least(rHits)>>,
                                         countries[ci].cities[yi].relays[Least(rHits)])

\* C7 witness: country and city both resolved, the city has a relay but none
\* of the asked name, and the lookup returned null.
C7_Witness ==
    /\ lastConstraint.type = "Only"
    /\ lastConstraint.value.type = "Hostname"
    /\ \E p \in RelayPaths(countries) :
          /\ FirstOnItsPath(countries, p)
          /\ RelayAt(countries, p).countryCode = lastConstraint.value.countryCode
          /\ RelayAt(countries, p).cityCode = lastConstraint.value.cityCode
          /\ RelaysWithName(countries, p[1], p[2], lastConstraint.value.hostname) = {}
    /\ lastResult = Null

\* C8: the constructed list is a position-by-position copy of the input: as
\* many countries, cities per country and relays per city, in the same order,
\* each name, code and hostname taken from the input element at the same
\* position, and every RelayCountry and RelayCity not expanded.
C8_CopyOfInput ==
    /\ Len(countries) = Len(model.countries)
    /\ \A ci \in 1..Len(model.countries) :
          LET mc == model.countries[ci]
              rc == countries[ci]
          IN /\ rc.name = mc.name
             /\ rc.code = mc.code
             /\ rc.expanded = FALSE
             /\ Len(rc.cities) = Len(mc.cities)
             /\ \A yi \in 1..Len(mc.cities) :
                   LET my == mc.cities[yi]
                       ry == rc.cities[yi]
                   IN /\ ry.name = my.name
                      /\ ry.code = my.code
                      /\ ry.expanded = FALSE
                      /\ Len(ry.relays) = Len(my.relays)
                      /\ \A ri \in 1..Len(my.relays) :
                            ry.relays[ri].name = my.relays[ri].hostname

\* C8 witness: a list built from an input whose two countries share a code
\* and differ in name, in input order, the second with a city and a relay.
C8_Witness ==
    /\ Len(model.countries) = 2
    /\ model.countries[1].code = model.countries[2].code
    /\ model.countries[1].name = "Norway"
    /\ model.countries[2].name = "Sweden"
    /\ Len(model.countries[2].cities) = 1
    /\ Len(model.countries[2].cities[1].relays) = 1
    /\ countries[1].name = "Norway"
    /\ countries[2].name = "Sweden"
    /\ Len(countries[2].cities[1].relays) = 1

\* C9: findItemForLocation changes nothing: while any number of callers are
\* anywhere inside it, the countries list is still the list the constructor
\* built, and every call that has returned returned what the same call
\* returns when run alone on the freshly constructed list.
C9_LookupIsPure ==
    /\ countries = RelayListConstructor(model)
    /\ \A c \in DOMAIN callers :
          callers[c].pc = "done" =>
             callers[c].result =
                findItemForLocation(RelayListConstructor(model), callers[c].constraint)

\* C9 witness: one caller has returned a relay while the other is in the
\* middle of a lookup of its own, past its country scan.
C9_Witness ==
    /\ DOMAIN callers = Callers
    /\ callers["caller1"].pc = "done"
    /\ callers["caller1"].result.kind = "relay"
    /\ callers["caller2"].pc \in {"city", "relay"}
    /\ callers["caller2"].country # 0

\* The k-th onClosePurchaseResultDialog call has been made, with this argument.
Closed(k, success) == Len(closeCalls) >= k /\ closeCalls[k] = success

\* What the k-th call has to bring about: resetPurchaseResult invoked, and
\* getAccountData invoked if it was called with success, queryPaymentAvailability
\* and verifyPurchases invoked if not.
Settled(k) ==
    /\ "resetPurchaseResult" \in invoked[CloseCall(k)]
    /\ IF closeCalls[k]
       THEN "getAccountData" \in invoked[CloseCall(k)]
       ELSE /\ "queryPaymentAvailability" \in invoked[CloseCall(k)]
            /\ "verifyPurchases" \in invoked[CloseCall(k)]

\* What the k-th call must never do: started with success, it starts neither
\* queryPaymentAvailability nor verifyPurchases; started without, its
\* getAccountData is invoked only once its verifyPurchases has returned.
Safe(k) ==
    /\ Closed(k, TRUE) =>
          /\ "queryPaymentAvailability" \notin invoked[CloseCall(k)]
          /\ "verifyPurchases" \notin invoked[CloseCall(k)]
    /\ (Closed(k, FALSE) /\ "getAccountData" \in invoked[CloseCall(k)]) =>
          "verifyPurchases" \in completed[CloseCall(k)]

\* C10: after onClosePurchaseResultDialog(success), for both values of
\* success, resetPurchaseResult is eventually invoked. When success is true
\* getAccountData is eventually invoked and the call starts neither
\* queryPaymentAvailability nor verifyPurchases. When success is false both
\* queryPaymentAvailability and verifyPurchases are eventually invoked, and
\* getAccountData is invoked for that call only once its verifyPurchases has
\* returned.
C10_ClosePurchaseResultDialog ==
    /\ \A k \in 1..MaxCalls : (Len(closeCalls) >= k) ~> Settled(k)
    /\ [](\A k \in 1..MaxCalls : Safe(k))

\* C10 witness: after a call with success = false, the purchases were
\* verified and the expiry refreshed, resetPurchaseResult has been invoked and
\* queryPaymentAvailability has not yet been.
C10_Witness ==
    /\ Closed(1, FALSE)
    /\ "verifyPurchases" \in completed[CloseCall(1)]
    /\ "getAccountData" \in invoked[CloseCall(1)]
    /\ "resetPurchaseResult" \in invoked[CloseCall(1)]
    /\ "queryPaymentAvailability" \notin invoked[CloseCall(1)]

\* C10 second witness: after a call with success = true the expiry was
\* refreshed before resetPurchaseResult was invoked.
C10_WitnessSuccess ==
    /\ Closed(1, TRUE)
    /\ "getAccountData" \in completed[CloseCall(1)]
    /\ "resetPurchaseResult" \notin invoked[CloseCall(1)]
====
